---- MODULE Spec2Model ----
(***************************************************************************)
(* Model of fem/gslib/interpolate_local_3.cpp (MFEM): the 1D Lagrange      *)
(* basis evaluator lagrange_eval, the sum-factorised kernel                *)
(* InterpolateLocal3DKernel<T_D1D> and its dispatcher                      *)
(* FindPointsGSLIB::InterpolateLocal3.                                     *)
(*                                                                         *)
(* Doubles are modelled as exact rationals <<n, d>> (d > 0, lowest terms): *)
(* rounding is not modelled, the order of every operation is.  <<0, 0>>    *)
(* marks a shared-memory word that was never written.                      *)
(***************************************************************************)
EXTENDS Integers, Sequences, FiniteSets, TLC

VARIABLES
    pc,        \* "idle" | "running" | "done" | "aborted" | "fault"
    calls,     \* number of calls made so far by the caller
    args,      \* the scalar arguments of the call: dof1Dsol, npt, ncomp, nel
    T_D1D,     \* template argument of the launched kernel, -1: none launched
    pN,        \* the kernel's pN argument
    layout,    \* where the build placed sums relative to wtr
    mem,       \* caller buffers gf_in, el, r, int_out, gll1D, lagcoeff; the
               \* shared memory shm of every point; nstore[n]: stores made
               \* to int_out[n]; stray: stores made to any other caller word;
               \* wby[i][a]: the stores made to shm[i][a] (how many, by which
               \* lanes in which phases); cur, log: the running lane body
               \* and the accesses it has made, in order
    lpc,       \* lpc[i][lane]: phase bodies lane of point i has completed
    prev       \* what the caller kept of the previous call

vars == <<pc, calls, args, T_D1D, pN, layout, mem, lpc, prev>>

(***************************************************************************)
(* Bounds of the model.                                                    *)
(***************************************************************************)
MaxNpt == 2
MaxNcomp == 3
MaxNel == 2
\* Launches of at most this many lanes and lane steps are explored under
\* every interleaving of lanes and points; larger ones in host loop order.
MaxParLanes == 8
MaxParSteps == 24
\* Words the caller's output buffer holds beyond the npt*ncomp it needs.
OutSlack == 1

(***************************************************************************)
(* Exact rational arithmetic standing for double.                          *)
(***************************************************************************)
Abs(n) == IF n < 0 THEN -n ELSE n

RECURSIVE Gcd(_, _)
Gcd(a, b) == IF b = 0 THEN a ELSE Gcd(b, a % b)

Rat(n, d) ==
    LET s == IF d < 0 THEN -1 ELSE 1
        g == Gcd(Abs(n), Abs(d))
    IN  <<(s * n) \div g, (s * d) \div g>>

\* int converted to double.
Dbl(n) == <<n, 1>>

RMul(a, b) ==
    LET g1 == Gcd(Abs(a[1]), b[2])
        g2 == Gcd(Abs(b[1]), a[2])
    IN  <<(a[1] \div g1) * (b[1] \div g2), (a[2] \div g2) * (b[2] \div g1)>>

RAdd(a, b) ==
    LET g == Gcd(a[2], b[2])
    IN  Rat(a[1] * (b[2] \div g) + b[1] * (a[2] \div g), (a[2] \div g) * b[2])

RSub(a, b) == RAdd(a, <<-b[1], b[2]>>)

Uninit == <<0, 0>>
\* What a read of a never-written word may return.
Garbage == {Dbl(0), Dbl(7)}
\* Content of the caller's output buffer before the call.
Stale == Dbl(99)

(***************************************************************************)
(* Inputs of a call.  Tables come from the basis-table provider, points    *)
(* from the point-location search; both are collaborators outside this     *)
(* file, so the model draws them from small families.                      *)
(***************************************************************************)
Degrees == 0..11
\* Degrees 2 and 3 are run with every npt, ncomp and nel; the other degrees
\* with one point, one component and one element.
SmallDegrees == {2, 3}
Upto(n) == 0..(n - 1)

RECURSIVE Pow2(_)
Pow2(n) == IF n = 0 THEN 1 ELSE 2 * Pow2(n - 1)

\* Node positions: "gll" is {-1, 1}; the other tables are consecutive
\* integers centred on 0.
NodeTable(tk, D) ==
    IF tk = "gll" THEN [j \in Upto(D) |-> Dbl(2 * j - 1)]
    ELSE [j \in Upto(D) |-> Dbl(j - ((D - 1) \div 2))]

RECURSIVE NodeProd(_, _, _, _)
NodeProd(z, i, j, acc) ==
    IF j = Len(z) THEN acc
    ELSE NodeProd(z, i, j + 1,
                  IF j = i THEN acc ELSE acc * (z[i + 1][1] - z[j + 1][1]))

\* Coefficients: for "gll" and "unit" consistent with the nodes,
\* 1 / (2^(D-1) * prod_{j # i} (z_i - z_j)); for "skew" only the power of
\* two, 1 / 2^(D-1); for "flat" the central node's coefficient at every i.
CoeffTable(tk, D) ==
    LET z == NodeTable(tk, D)
        zs == [j \in 1..D |-> z[j - 1]]
    IN  [i \in Upto(D) |->
            CASE tk = "skew" -> Rat(1, Pow2(D - 1))
              [] tk = "flat" ->
                   Rat(1, Pow2(D - 1) * NodeProd(zs, (D - 1) \div 2, 0, 1))
              [] OTHER -> Rat(1, Pow2(D - 1) * NodeProd(zs, i, 0, 1))]

TableKinds(D) ==
    IF D = 2 THEN {"gll", "skew"}
    ELSE IF D <= 3 THEN {"unit", "skew"}
    ELSE IF D <= 10 THEN {"unit"}
    ELSE {"flat"}

\* Reference coordinates: "center" is (0,0,0) for every point, "off" is off
\* the nodes and partly outside the element, <<"node", m>> puts direction d
\* of point i on node (m + i + d) % D (m a multiple of 3: the three
\* directions of the kinds together visit every node).
NodeKinds(D) == {<<"node", m>> : m \in {x \in Upto(D) : x % 3 = 0}}
CoordKinds(D) ==
    IF D = 0 THEN {<<"center", 0>>}
    ELSE IF D <= 3
         THEN {<<"center", 0>>, <<"off", 0>>} \cup NodeKinds(D)
    ELSE IF D <= 10 THEN NodeKinds(D)
    ELSE {<<"center", 0>>}

OffCoord(i, d) ==
    LET c == <<Rat(1, 2), Rat(-1, 2), Rat(3, 2)>>[d + 1]
    IN  IF i % 2 = 0 THEN c ELSE <<-c[1], c[2]>>

RefCoords(ck, z, D, n) ==
    [x \in Upto(3 * n) |->
        LET i == x \div 3
            d == x % 3
        IN  CASE ck[1] = "center" -> Dbl(0)
              [] ck[1] = "off" -> OffCoord(i, d)
              [] OTHER -> z[(ck[2] + i + d) % D]]

\* Nodal values: all 1, or 1, 2, 3, ... by increasing index.
FieldKinds == {"ones", "ramp"}
Field(fk, len) ==
    [n \in Upto(len) |-> IF fk = "ones" THEN Dbl(1) ELSE Dbl(n + 1)]

\* Nothing has been stored to a word.
NoStores == [n |-> 0, by |-> {}]

\* No lane body is running.
NoLane == [i |-> -1, lane |-> -1, ph |-> -1]

\* The combinations of inputs the model explores.
Explored(D, n, nc, ne, fk, ck, tk) ==
    IF n = 0 \/ nc = 0 \/ D = 0
    THEN fk = "ramp" /\ ck[1] = "center" /\ ne = 1 /\ tk # "skew"
    ELSE /\ (D \notin SmallDegrees) => (n = 1 /\ nc = 1 /\ ne = 1 /\ fk = "ramp")
         /\ (ne > 1 \/ n > 1) => (fk = "ramp" /\ ck[1] = "off")
         /\ (fk = "ones") => (ck[1] = "center" /\ tk # "skew")
         /\ (tk = "skew") => ck[1] = "off"

Buffers(D, n, nc, ne, fk, ck, tk) ==
    [gf_in    |-> Field(fk, ne * nc * D * D * D),
     el       |-> [i \in Upto(n) |-> (i + 1) % ne],
     r        |-> RefCoords(ck, NodeTable(tk, D), D, n),
     int_out  |-> [x \in Upto(n * nc + OutSlack) |-> Stale],
     gll1D    |-> NodeTable(tk, D),
     lagcoeff |-> CoeffTable(tk, D),
     shm      |-> <<>>,
     nstore   |-> [x \in Upto(n * nc + OutSlack) |-> 0],
     stray    |-> {},
     wby      |-> <<>>,
     cur      |-> NoLane,
     log      |-> <<>>]

NoPrev ==
    [T_D1D |-> -1, int_out |-> <<>>, nstore |-> <<>>, wtr |-> <<>>,
     sums |-> <<>>, ncomp |-> 0, comp |-> 0]

Init ==
    /\ pc = "idle"
    /\ calls = 0
    /\ T_D1D = -1
    /\ pN = 0
    /\ layout = "adjacent"
    /\ lpc = <<>>
    /\ prev = NoPrev
    /\ \E D \in Degrees, n \in 0..MaxNpt, nc \in 0..MaxNcomp, ne \in 1..MaxNel,
          fk \in FieldKinds :
         \E ck \in CoordKinds(D), tk \in TableKinds(D) :
            /\ Explored(D, n, nc, ne, fk, ck, tk)
            /\ args = [dof1Dsol |-> D, npt |-> n, ncomp |-> nc, nel |-> ne]
            /\ mem = Buffers(D, n, nc, ne, fk, ck, tk)

(***************************************************************************)
(* Memory: a pointer is a buffer, a block (the point, for shared memory)   *)
(* and an offset.                                                          *)
(***************************************************************************)
\* arr names the array the pointer was formed from and base is where that
\* array starts in its buffer: p[n] is element off + n - base of arr.
Ptr(buf, blk, off) ==
    [buf |-> buf, blk |-> blk, off |-> off, arr |-> buf, base |-> 0]
PtrAdd(p, n) == [p EXCEPT !.off = @ + n]

\* The lane body that is running makes access op ("r" or "w") to p[n]:
\* seen is what had been stored to that word before.
Access(M, op, p, n) ==
    [M EXCEPT !.log =
        Append(@, [op |-> op, arr |-> p.arr, blk |-> p.blk,
                   idx |-> p.off + n - p.base,
                   seen |-> IF p.buf = "shm" THEN M.wby[p.blk][p.off + n]
                            ELSE NoStores])]

\* p[n] read; g is what a never-written shared word yields.
Load(M, p, n, g) ==
    IF p.buf = "shm"
    THEN LET v == M.shm[p.blk][p.off + n] IN IF v = Uninit THEN g ELSE v
    ELSE M[p.buf][p.off + n]

\* The read of p[n] entered in the log.
Read(M, p, n) == Access(M, "r", p, n)

\* p[n] = v.
Store(M, p, n, v) ==
    LET a == p.off + n
        L == Access(M, "w", p, n)
    IN  IF p.buf = "shm"
        THEN [L EXCEPT !.shm[p.blk][a] = v,
                       !.wby[p.blk][a] =
                           [n |-> @.n + 1,
                            by |-> @.by \cup {<<M.cur.lane, M.cur.ph>>}]]
        ELSE IF p.buf = "int_out" /\ a \in DOMAIN M.int_out
             THEN [L EXCEPT !.int_out[a] = v, !.nstore[a] = @ + 1]
        ELSE IF a \in DOMAIN M[p.buf]
             THEN [L EXCEPT ![p.buf][a] = v, !.stray = @ \cup {<<p.buf, a>>}]
        ELSE [L EXCEPT !.stray = @ \cup {<<p.buf, a>>}]

(***************************************************************************)
(* lagrange_eval                                                           *)
(***************************************************************************)
\* for (int j = 0; j < p_Nq; ++j) { d_j = x - z[j]; p_i *= j == i ? 1 : d_j; }
\* st is the state of the loop: the index j, the product p_i, the memory M.
RECURSIVE LagrangeLoop(_, _, _, _, _)
LagrangeLoop(x, i, p_Nq, z, st) ==
    IF st.j >= p_Nq THEN st
    ELSE LET d_j == RSub(x, Load(st.M, z, st.j, Uninit))
         IN  LagrangeLoop(x, i, p_Nq, z,
                          [j |-> st.j + 1,
                           p_i |-> RMul(st.p_i,
                                        IF st.j = i THEN Dbl(1) ELSE d_j),
                           M |-> Read(st.M, z, st.j)])

\* Mutant: the result is stored through z instead of p0.
lagrange_eval_into_z(M, p0, x, i, p_Nq, z, lagrangeCoeff) ==
    LET e == LagrangeLoop(x, i, p_Nq, z,
                          [j |-> 0, p_i |-> Dbl(Pow2(p_Nq - 1)), M |-> M])
    IN  Store(Read(e.M, lagrangeCoeff, i), z, i,
              RMul(Load(M, lagrangeCoeff, i, Uninit), e.p_i))

\* Mutant: the normalisation is 1 << p_Nq.
lagrange_eval_shift(M, p0, x, i, p_Nq, z, lagrangeCoeff) ==
    LET e == LagrangeLoop(x, i, p_Nq, z,
                          [j |-> 0, p_i |-> Dbl(Pow2(p_Nq)), M |-> M])
    IN  Store(Read(e.M, lagrangeCoeff, i), p0, i,
              RMul(Load(M, lagrangeCoeff, i, Uninit), e.p_i))

lagrange_eval(M, p0, x, i, p_Nq, z, lagrangeCoeff) ==
    LET e == LagrangeLoop(x, i, p_Nq, z,
                          [j |-> 0, p_i |-> Dbl(Pow2(p_Nq - 1)), M |-> M])
    IN  Store(Read(e.M, lagrangeCoeff, i), p0, i,
              RMul(Load(M, lagrangeCoeff, i, Uninit), e.p_i))

(***************************************************************************)
(* InterpolateLocal3DKernel<T_D1D>: constants of an instantiation          *)
(***************************************************************************)
\* Mutant: the generic instantiation declares capacity for degree 5.
KMD1Five(T) == IF T # 0 THEN T ELSE 5

\* constexpr int MD1 = T_D1D ? T_D1D : 10; D1D = T_D1D ? T_D1D : pN.
KMD1(T) == IF T # 0 THEN T ELSE 10
KD1D(T, pn) == IF T # 0 THEN T ELSE pn

Nfields == args.ncomp
MD1 == KMD1(T_D1D)
D1D == KD1D(T_D1D, pN)
p_Np == D1D * D1D * D1D

\* MFEM_VERIFY(MD1 <= 10, ...) and MFEM_VERIFY(D1D != 0, ...)
VerifyMD1(T, pn) == KMD1(T) <= 10
VerifyD1D(T, pn) == KD1D(T, pn) # 0

\* MFEM_SHARED double wtr[3*MD1]; MFEM_SHARED double sums[MD1*MD1];
WtrCap == 3 * MD1
SumsCap == MD1 * MD1
Max(a, b) == IF a > b THEN a ELSE b
\* Words the build leaves between wtr and sums.
ShmGap(T, pn, lay) ==
    IF lay = "padded" THEN Max(0, 3 * KD1D(T, pn) - 3 * KMD1(T)) ELSE 0
SumsBase(T, pn, lay) == 3 * KMD1(T) + ShmGap(T, pn, lay)
ShmSize(T, pn, lay) ==
    SumsBase(T, pn, lay) + Max(KMD1(T) * KMD1(T), KD1D(T, pn) * KD1D(T, pn))

\* Mutant: every point uses the same block.
BlockShared(i) == 0

\* The block of shared memory of point i.
Block(i) == i
wtr(i) == [Ptr("shm", Block(i), 0) EXCEPT !.arr = "wtr"]
sums(i) ==
    [Ptr("shm", Block(i), SumsBase(T_D1D, pN, layout))
        EXCEPT !.arr = "sums", !.base = SumsBase(T_D1D, pN, layout)]

gf_in == Ptr("gf_in", 0, 0)
el == Ptr("el", 0, 0)
r == Ptr("r", 0, 0)
int_out == Ptr("int_out", 0, 0)
gll1D == Ptr("gll1D", 0, 0)
lagcoeff == Ptr("lagcoeff", 0, 0)

\* Lanes of a point: x index j, y index k.
Lanes == Upto(D1D * D1D)
LaneId(j, k) == j + k * D1D
NPhases == 1 + 2 * Nfields

(***************************************************************************)
(* The three phase bodies of lane (j, k) of point i.                       *)
(***************************************************************************)
\* Mutant: the lanes with k = 1 do not evaluate the third direction when
\* D1D = 2.
BasisBodyNoPair(M, i, j, k) ==
    IF k <= 2
    THEN lagrange_eval(Read(M, r, 3 * i + k), PtrAdd(wtr(i), k * D1D),
                       Load(M, r, 3 * i + k, Uninit), j, D1D, gll1D, lagcoeff)
    ELSE M

\* Evaluate basis functions at the reference space coordinates.
BasisBody(M, i, j, k) ==
    LET M1 == IF k <= 2
              THEN lagrange_eval(Read(M, r, 3 * i + k),
                                 PtrAdd(wtr(i), k * D1D),
                                 Load(M, r, 3 * i + k, Uninit),
                                 j, D1D, gll1D, lagcoeff)
              ELSE M
    IN  IF D1D = 2 /\ k = 1
        THEN lagrange_eval(Read(M1, r, 3 * i + 2),
                           PtrAdd(wtr(i), 2 * D1D),
                           Load(M1, r, 3 * i + 2, Uninit),
                           j, D1D, gll1D, lagcoeff)
        ELSE M1

\* Mutant: the NDOFSxNELxVDIM ordering, el[i]*p_Np + fld*gf_offset.
ElemOffsetByVDim(M, i, fld) ==
    Load(M, el, i, Uninit) * p_Np + fld * args.nel * p_Np

\* Mutant: line 81, with gf_offset = field_in.Size()/ncomp of line 127.
ElemOffsetByGfOffset(M, i, fld) ==
    Load(M, el, i, Uninit) * p_Np
        + fld * (Cardinality(DOMAIN M.gf_in) \div Nfields)

\* const int elemOffset = el[i] * p_Np * Nfields + fld * p_Np;
ElemOffset(M, i, fld) ==
    Load(M, el, i, Uninit) * p_Np * Nfields + fld * p_Np

\* Mutant: the row stride is the capacity MD1 instead of D1D.
SumsIndexByCapacity(j, k) == j + k * MD1

\* The entry of sums owned by lane (j, k).
SumsIndex(j, k) == j + k * D1D

\* for (int l = 0; l < D1D; ++l) { sums[j + k*D1D] += gf_in[..] * wtr[2*D1D+l]; }
\* st is the state of the loop: the index l and the memory M.  The three
\* reads of one iteration are entered as sums, gf_in, wtr.
RECURSIVE ContractLoop(_, _, _, _, _, _)
ContractLoop(st, i, j, k, elemOffset, g) ==
    IF st.l >= D1D THEN st.M
    ELSE LET gi == elemOffset + j + k * D1D + st.l * D1D * D1D
             R == Read(Read(Read(st.M, sums(i), SumsIndex(j, k)), gf_in, gi),
                       wtr(i), 2 * D1D + st.l)
         IN  ContractLoop(
                 [l |-> st.l + 1,
                  M |-> Store(R, sums(i), SumsIndex(j, k),
                              RAdd(Load(st.M, sums(i), SumsIndex(j, k), g),
                                   RMul(Load(st.M, gf_in, gi, g),
                                        Load(st.M, wtr(i),
                                             2 * D1D + st.l, g))))],
                 i, j, k, elemOffset, g)

ContractBody(M, i, j, k, fld, g) ==
    LET M0 == Store(Read(M, el, i), sums(i), SumsIndex(j, k), Dbl(0))
        M1 == ContractLoop([l |-> 0, M |-> M0], i, j, k,
                           ElemOffset(M, i, fld), g)
        R == Read(Read(Read(M1, sums(i), SumsIndex(j, k)), wtr(i), D1D + k),
                  wtr(i), j)
    IN  Store(R, sums(i), SumsIndex(j, k),
              RMul(Load(M1, sums(i), SumsIndex(j, k), g),
                   RMul(Load(M1, wtr(i), D1D + k, g),
                        Load(M1, wtr(i), j, g))))

\* Mutant: the reduction stops after the first row of sums.
RECURSIVE ReduceLoopFirstRow(_, _, _)
ReduceLoopFirstRow(i, st, g) ==
    IF st.jj >= D1D THEN st
    ELSE ReduceLoopFirstRow(
             i, [jj |-> st.jj + 1,
                 sumv |-> RAdd(st.sumv, Load(st.M, sums(i), st.jj, g)),
                 M |-> Read(st.M, sums(i), st.jj)], g)

\* for (int jj = 0; jj < D1D*D1D; ++jj) { sumv += sums[jj]; }
\* st is the state of the loop: the index jj, the accumulator sumv and the
\* memory M.
RECURSIVE ReduceLoop(_, _, _)
ReduceLoop(i, st, g) ==
    IF st.jj >= D1D * D1D THEN st
    ELSE ReduceLoop(
             i, [jj |-> st.jj + 1,
                 sumv |-> RAdd(st.sumv, Load(st.M, sums(i), st.jj, g)),
                 M |-> Read(st.M, sums(i), st.jj)], g)

\* Mutant: the output is laid out point-major.
OutIndexPointMajor(i, fld) == fld + i * Nfields

OutIndex(i, fld) == i + fld * args.npt

\* Mutant: every lane reduces and writes the output.
ReduceBodyEveryLane(M, i, j, k, fld, g) ==
    LET e == ReduceLoop(i, [jj |-> 0, sumv |-> Dbl(0), M |-> M], g)
    IN  Store(e.M, int_out, OutIndex(i, fld), e.sumv)

ReduceBody(M, i, j, k, fld, g) ==
    IF j = 0 /\ k = 0
    THEN LET e == ReduceLoop(i, [jj |-> 0, sumv |-> Dbl(0), M |-> M], g)
         IN  Store(e.M, int_out, OutIndex(i, fld), e.sumv)
    ELSE M

\* Phase ph of a lane: 0 is the basis phase, 2*fld+1 the contraction and
\* 2*fld+2 the reduction of component fld.
PhaseBody(M, i, j, k, ph, g) ==
    IF ph = 0 THEN BasisBody(M, i, j, k)
    ELSE IF ph % 2 = 1 THEN ContractBody(M, i, j, k, (ph - 1) \div 2, g)
    ELSE ReduceBody(M, i, j, k, (ph - 2) \div 2, g)

\* Whether lane (j, k) in phase ph touches wtr or sums beyond its capacity.
BeyondCapacity(j, k, ph) ==
    IF ph = 0 THEN k <= 2 /\ k * D1D + j >= WtrCap
    ELSE IF ph % 2 = 1
         THEN 3 * D1D - 1 >= WtrCap \/ SumsIndex(j, k) >= SumsCap
    ELSE j = 0 /\ k = 0 /\ D1D * D1D - 1 >= SumsCap

(***************************************************************************)
(* forall_2D(npt, D1D, D1D, body): one block per point, D1D x D1D lanes.   *)
(* MFEM_SYNC_THREAD is a barrier of the block.                             *)
(***************************************************************************)
\* Mutant: MFEM_SYNC_THREAD does not wait.
NoBarrier(i, ph) == TRUE

\* A lane may start phase ph once every lane of its block has finished
\* phase ph - 1 (the MFEM_SYNC_THREAD before it).
BarrierPassed(i, ph) == ~ \E l \in Lanes : lpc[i][l] < ph

PointDone(i) == ~ \E l \in Lanes : lpc[i][l] # NPhases

\* Small first launches are explored under every interleaving of lanes and
\* points (device execution); the others in the order of the host loops:
\* points in increasing i, MFEM_FOREACH_THREAD(j,x,..) outside
\* MFEM_FOREACH_THREAD(k,y,..).
Interleaved ==
    /\ calls = 1
    /\ D1D * D1D * args.npt <= MaxParLanes
    /\ D1D * D1D * args.npt * NPhases <= MaxParSteps

Rank(j, k) == j * D1D + k

Scheduled(i, j, k) ==
    \/ Interleaved
    \/ /\ ~ \E h \in Upto(i) : ~PointDone(h)
       /\ ~ \E j2 \in Upto(D1D), k2 \in Upto(D1D) :
               lpc[i][LaneId(j2, k2)] #
                   lpc[i][LaneId(j, k)]
                       + (IF Rank(j2, k2) < Rank(j, k) THEN 1 ELSE 0)

Layouts(T, pn) ==
    IF KD1D(T, pn) > KMD1(T) THEN {"adjacent", "padded", "guarded"}
    ELSE {"adjacent"}

\* Lines 50-56: the kernel's checks, then the launch over M.
Launch(T, pn, M) ==
    /\ T_D1D' = T
    /\ pN' = pn
    /\ IF ~VerifyMD1(T, pn) \/ ~VerifyD1D(T, pn)
       THEN /\ pc' = "aborted"
            /\ mem' = M
            /\ UNCHANGED <<layout, lpc>>
       ELSE \E lay \in Layouts(T, pn) :
            /\ pc' = "running"
            /\ layout' = lay
            /\ mem' = [M EXCEPT
                          !.shm = [i \in Upto(args.npt) |->
                                      [a \in Upto(ShmSize(T, pn, lay)) |->
                                          Uninit]],
                          !.wby = [i \in Upto(args.npt) |->
                                      [a \in Upto(ShmSize(T, pn, lay)) |->
                                          NoStores]]]
            /\ lpc' = [i \in Upto(args.npt) |->
                          [l \in Upto(KD1D(T, pn) * KD1D(T, pn)) |-> 0]]

\* Mutant: the early return is missing.
EarlyReturnMissing == FALSE

\* if (npt == 0) { return; }
EarlyReturn == args.npt = 0

\* switch (dof1Dsol): the template argument and the pN argument.
TemplateFor(d) == IF d \in {2, 3, 4, 5} THEN d ELSE 0
PNFor(d) == IF d \in {2, 3, 4, 5} THEN 0 ELSE d

\* FindPointsGSLIB::InterpolateLocal3.  field_in.Size()/ncomp with
\* ncomp = 0 is an integer division by zero: the build traps or goes on
\* (gf_offset is never used).
InterpolateLocal3 ==
    /\ pc = "idle"
    /\ calls' = calls + 1
    /\ UNCHANGED <<args, prev>>
    /\ IF EarlyReturn
       THEN /\ pc' = "done"
            /\ UNCHANGED <<T_D1D, pN, layout, mem, lpc>>
       ELSE \/ /\ args.ncomp = 0
               /\ pc' = "fault"
               /\ UNCHANGED <<T_D1D, pN, layout, mem, lpc>>
            \/ Launch(TemplateFor(args.dof1Dsol), PNFor(args.dof1Dsol), mem)

\* The memory after lane (j, k) of point i has run its next phase body; cur
\* names the lane and log holds the accesses of that body, in order.
Run(i, j, k, g) ==
    PhaseBody([mem EXCEPT !.cur = [i |-> i, lane |-> LaneId(j, k),
                                   ph |-> lpc[i][LaneId(j, k)]],
                          !.log = <<>>],
              i, j, k, lpc[i][LaneId(j, k)], g)

\* One lane runs one phase body, up to the next MFEM_SYNC_THREAD.
LaneStep(i, j, k) ==
    /\ pc = "running"
    /\ lpc[i][LaneId(j, k)] < NPhases
    /\ BarrierPassed(i, lpc[i][LaneId(j, k)])
    /\ Scheduled(i, j, k)
    /\ UNCHANGED <<calls, args, T_D1D, pN, layout, prev>>
    /\ IF layout = "guarded" /\ BeyondCapacity(j, k, lpc[i][LaneId(j, k)])
       THEN /\ pc' = "fault"
            /\ UNCHANGED <<mem, lpc>>
       ELSE /\ \E g \in Garbage : mem' = Run(i, j, k, g)
            /\ lpc' = [lpc EXCEPT ![i][LaneId(j, k)] = @ + 1]
            /\ pc' = pc

\* forall_2D returns when every lane of every point has finished.
KernelReturn ==
    /\ pc = "running"
    /\ ~ \E i \in Upto(args.npt) : ~PointDone(i)
    /\ pc' = "done"
    /\ UNCHANGED <<calls, args, T_D1D, pN, layout, mem, lpc, prev>>

(***************************************************************************)
(* The caller's second call, on the inputs of the first: the generic       *)
(* instantiation called with pN = degree, or InterpolateLocal3 on the      *)
(* sub-buffer of one component of a three-component field.                 *)
(***************************************************************************)
Fresh(M, n) ==
    [M EXCEPT !.int_out = [x \in Upto(n + OutSlack) |-> Stale],
              !.nstore = [x \in Upto(n + OutSlack) |-> 0],
              !.shm = <<>>, !.wby = <<>>, !.cur = NoLane, !.log = <<>>]

\* wtr and sums of every point, by index.
WtrView == [i \in Upto(args.npt) |-> [n \in Upto(3 * D1D) |-> mem.shm[i][n]]]
SumsView ==
    [i \in Upto(args.npt) |->
        [n \in Upto(D1D * D1D) |->
            mem.shm[i][SumsBase(T_D1D, pN, layout) + n]]]

Kept(c) ==
    [T_D1D |-> T_D1D, int_out |-> mem.int_out, nstore |-> mem.nstore,
     wtr |-> WtrView, sums |-> SumsView, ncomp |-> args.ncomp, comp |-> c]

RerunGeneric ==
    /\ pc = "done"
    /\ calls = 1
    /\ T_D1D > 0
    /\ calls' = 2
    /\ prev' = Kept(0)
    /\ UNCHANGED args
    /\ Launch(0, args.dof1Dsol, Fresh(mem, args.npt * args.ncomp))

SubBuffer(gf, c, nc, Np, ne) ==
    [x \in Upto(ne * Np) |-> gf[(x \div Np) * Np * nc + c * Np + (x % Np)]]

RerunComponent(c) ==
    /\ pc = "done"
    /\ calls = 1
    /\ T_D1D # -1
    /\ args.ncomp = 3
    /\ prev' = Kept(c)
    /\ args' = [args EXCEPT !.ncomp = 1]
    /\ mem' = [Fresh(mem, args.npt) EXCEPT
                  !.gf_in = SubBuffer(mem.gf_in, c, args.ncomp, p_Np, args.nel)]
    /\ pc' = "idle"
    /\ T_D1D' = -1
    /\ pN' = 0
    /\ lpc' = <<>>
    /\ UNCHANGED <<calls, layout>>

Next ==
    \/ InterpolateLocal3
    \/ \E i \in Upto(args.npt) : \E j \in Upto(D1D), k \in Upto(D1D) :
          LaneStep(i, j, k)
    \/ KernelReturn
    \/ RerunGeneric
    \/ \E c \in Upto(3) : RerunComponent(c)

Spec == Init /\ [][Next]_vars

(***************************************************************************)
(* Properties                                                              *)
(***************************************************************************)
\* The output buffer is as the caller left it and nothing else was stored.
Untouched ==
    /\ \A n \in DOMAIN mem.int_out : mem.int_out[n] = Stale /\ mem.nstore[n] = 0
    /\ mem.stray = {}

\* No lane of any point has run and no word of shared memory is written.
NoPointStarted ==
    /\ \A i \in DOMAIN lpc : \A l \in DOMAIN lpc[i] : lpc[i][l] = 0
    /\ \A i \in DOMAIN mem.shm :
          \A a \in DOMAIN mem.shm[i] : mem.shm[i][a] = Uninit

\* C1: for d in 2..5, the generic instantiation called with pN = d on the
\* inputs of a completed run of InterpolateLocal3DKernel<d> leaves the same
\* value in every output slot, makes the same number of stores to every
\* slot, and leaves the same value at every index of wtr and of sums.
PathEquivalence ==
    (pc = "done" /\ calls = 2 /\ T_D1D = 0 /\ prev.T_D1D \in {2, 3, 4, 5})
        => /\ pN = prev.T_D1D
           /\ mem.int_out = prev.int_out
           /\ mem.nstore = prev.nstore
           /\ WtrView = prev.wtr
           /\ SumsView = prev.sums

PathEquivalenceWitness ==
    /\ pc = "done" /\ calls = 2 /\ T_D1D = 0 /\ prev.T_D1D = 3
    /\ args.npt = 2 /\ args.ncomp = 3 /\ args.nel = 2
    /\ mem.nstore[5] = 1

\* C2: with npt > 0 and a requested degree above 10 the call aborts before
\* any point starts and before any output or shared word is written.
DegreeAboveMaxAborts ==
    (args.npt > 0 /\ args.dof1Dsol > 10 /\ pc # "idle")
        => (pc = "aborted" /\ NoPointStarted /\ Untouched)

\* C3: with npt > 0 and requested degree 0 the call goes to the generic
\* instantiation and aborts at its check, with no point started and no
\* output slot written.
DegreeZeroAborts ==
    (args.npt > 0 /\ args.dof1Dsol = 0 /\ pc # "idle")
        => (pc = "aborted" /\ T_D1D = 0 /\ NoPointStarted /\ Untouched)

\* C4: with npt = 0 the call returns without launching any instantiation,
\* without failing and with the output buffer unchanged, whatever the
\* requested degree and ncomp.
NoOpOnEmpty ==
    (args.npt = 0 /\ pc # "idle")
        => (pc = "done" /\ T_D1D = -1 /\ lpc = <<>> /\ Untouched)

NoOpOnEmptyWitness ==
    /\ pc = "done" /\ calls = 1
    /\ args.npt = 0 /\ args.ncomp = 0 /\ args.dof1Dsol = 11
    /\ mem.int_out # <<>>

\* The tensor-product Lagrange interpolant, summed directly from the
\* caller's buffers.
\* The sum of f[0..n-1]; st is the number of terms left and the sum so far.
RECURSIVE SumFrom(_, _)
SumFrom(f, st) ==
    IF st.n = 0 THEN st.acc
    ELSE SumFrom(f, [n |-> st.n - 1, acc |-> RAdd(st.acc, f[st.n - 1])])

SumOver(f, n) == SumFrom(f, [n |-> n, acc |-> Dbl(0)])

\* prod_{j # n} (x - z_j); st is the index j and the product so far.
RECURSIVE BasisProd(_, _, _)
BasisProd(x, n, st) ==
    IF st.j = D1D THEN st.acc
    ELSE BasisProd(x, n,
                   [j |-> st.j + 1,
                    acc |-> IF st.j = n THEN st.acc
                            ELSE RMul(st.acc, RSub(x, mem.gll1D[st.j]))])

BasisValue(x, n) ==
    RMul(mem.lagcoeff[n],
         RMul(Dbl(Pow2(D1D - 1)), BasisProd(x, n, [j |-> 0, acc |-> Dbl(1)])))

ExpectedValue(i, fld) ==
    LET B == [d \in Upto(3) |->
                 [n \in Upto(D1D) |-> BasisValue(mem.r[3 * i + d], n)]]
        base == mem.el[i] * p_Np * Nfields + fld * p_Np
        \* w * s, with s not evaluated when the weight w is zero
        Scaled(w, s) == IF w = Dbl(0) THEN Dbl(0) ELSE RMul(w, s)
        Row(l, k) ==
            SumOver([j \in Upto(D1D) |->
                        Scaled(B[0][j],
                               mem.gf_in[base + j + k * D1D + l * D1D * D1D])],
                    D1D)
        Plane(l) ==
            SumOver([k \in Upto(D1D) |-> Scaled(B[1][k], Row(l, k))], D1D)
    IN  SumOver([l \in Upto(D1D) |-> Scaled(B[2][l], Plane(l))], D1D)

\* The coefficient table is the one of the node table:
\* lagcoeff[n] * 2^(D1D-1) * prod_{j # n} (z_n - z_j) = 1.
ConsistentTables ==
    \A n \in Upto(D1D) : BasisValue(mem.gll1D[n], n) = Dbl(1)

\* C5: after a completed call with npt > 0, ncomp >= 1 and a degree in
\* 2..10, slot i + fld*npt has been stored exactly once and holds the
\* value of point i, component fld; no other word of the output buffer and
\* no other caller word has been stored.
OutputCoverage ==
    (pc = "done" /\ args.npt > 0 /\ args.ncomp >= 1 /\ D1D \in 2..10)
        => /\ \A n \in DOMAIN mem.nstore :
                 mem.nstore[n] = IF n < args.npt * args.ncomp THEN 1 ELSE 0
           /\ \A n \in DOMAIN mem.int_out :
                 n >= args.npt * args.ncomp => mem.int_out[n] = Stale
           /\ mem.stray = {}
           /\ \A i \in Upto(args.npt), fld \in Upto(args.ncomp) :
                 mem.int_out[i + fld * args.npt] = ExpectedValue(i, fld)

OutputCoverageWitness ==
    /\ pc = "done" /\ calls = 1 /\ args.npt = 2 /\ args.ncomp = 3
    /\ D1D = 3 /\ mem.nstore[5] = 1
    /\ mem.int_out[1] # mem.int_out[3]

\* C6: no step of the kernel changes gf_in, el, r, gll1D or lagcoeff, or
\* stores to any caller word outside the output buffer.  (The one step that
\* ends in "idle" is the caller handing in a component sub-buffer.)
InputsReadOnly ==
    [][pc' # "idle" =>
          /\ mem'.gf_in = mem.gf_in
          /\ mem'.el = mem.el
          /\ mem'.r = mem.r
          /\ mem'.gll1D = mem.gll1D
          /\ mem'.lagcoeff = mem.lagcoeff
          /\ mem'.stray = {}]_vars

InputsReadOnlyWitness ==
    /\ pc = "done" /\ calls = 2 /\ prev.T_D1D = 2 /\ T_D1D = 0
    /\ args.npt = 2 /\ mem.nstore[0] = 1
    /\ \A a \in Upto(6) : mem.shm[1][a] # Uninit

\* C7: for a degree in 2..10, the slots i of a one-component call on the
\* component-c sub-buffer of a three-component field hold the values the
\* three-component call left in slots i + c*npt.
ComponentConsistency ==
    (/\ pc = "done" /\ calls = 2 /\ prev.ncomp = 3 /\ args.ncomp = 1
     /\ D1D \in 2..10)
        => \A i \in Upto(args.npt) :
              mem.int_out[i] = prev.int_out[i + prev.comp * args.npt]

ComponentConsistencyWitness ==
    /\ pc = "done" /\ calls = 2 /\ prev.ncomp = 3 /\ args.ncomp = 1
    /\ prev.comp = 2 /\ args.npt = 2 /\ args.nel = 2 /\ D1D = 3
    /\ mem.int_out[1] = prev.int_out[5]
    /\ prev.int_out[5] # prev.int_out[3]

\* C8: degree 2, nodes {-1, 1} with their coefficients, one element, one
\* component, one point at (0,0,0): the output is 1 for eight nodal values
\* 1 and 9/2 for the nodal values 1..8.
WorkedExample ==
    (/\ pc = "done" /\ D1D = 2
     /\ args.npt = 1 /\ args.ncomp = 1 /\ args.nel = 1
     /\ mem.gll1D = [j \in Upto(2) |-> Dbl(2 * j - 1)]
     /\ ConsistentTables
     /\ mem.r = [x \in Upto(3) |-> Dbl(0)])
        => /\ (mem.gf_in = [n \in Upto(8) |-> Dbl(1)])
                 => mem.int_out[0] = Dbl(1)
           /\ (mem.gf_in = [n \in Upto(8) |-> Dbl(n + 1)])
                 => mem.int_out[0] = Rat(9, 2)

WorkedExampleWitness ==
    /\ pc = "done" /\ T_D1D = 2
    /\ args.npt = 1 /\ args.ncomp = 1 /\ args.nel = 1
    /\ mem.gll1D = [j \in Upto(2) |-> Dbl(2 * j - 1)]
    /\ mem.lagcoeff = [j \in Upto(2) |-> Rat(2 * j - 1, 4)]
    /\ mem.r = [x \in Upto(3) |-> Dbl(0)]
    /\ mem.gf_in = [n \in Upto(8) |-> Dbl(n + 1)]
    /\ mem.int_out[0] = <<9, 2>>

\* The lanes that write direction d of wtr have y index DirLane(d).
DirLane(d) == IF D1D = 2 /\ d = 2 THEN 1 ELSE d
WroteBasis(i, j, d) == lpc[i][LaneId(j, DirLane(d))] >= 1

\* C9: for D1D in 2..10 and consistent tables, once the lane of basis index
\* j has evaluated direction d of point i at a coordinate that is node m,
\* wtr[d*D1D + j] is 1 if j = m and 0 otherwise; and the calls made so far
\* have written no other word of wtr.
Kronecker ==
    (pc \in {"running", "done"} /\ D1D \in 2..10 /\ ConsistentTables)
        => \A i \in Upto(args.npt) :
              /\ \A j \in Upto(D1D), d \in Upto(3) :
                    IF WroteBasis(i, j, d)
                    THEN \A m \in Upto(D1D) :
                            mem.r[3 * i + d] = mem.gll1D[m]
                                => mem.shm[i][d * D1D + j] =
                                       Dbl(IF j = m THEN 1 ELSE 0)
                    ELSE mem.shm[i][d * D1D + j] = Uninit
              /\ \A a \in (3 * D1D)..(WtrCap - 1) : mem.shm[i][a] = Uninit

KroneckerWitness ==
    /\ pc = "running" /\ D1D = 10 /\ ConsistentTables
    /\ mem.r[0] = mem.gll1D[9]
    /\ WroteBasis(0, 9, 0) /\ mem.shm[0][9] = Dbl(1)
    /\ WroteBasis(0, 0, 0) /\ mem.shm[0][0] = Dbl(0)
    /\ ~WroteBasis(0, 9, 2) /\ mem.shm[0][29] = Uninit

\* The lane that reduces and stores the output of its point.
ReducedBy(i, fld) == lpc[i][LaneId(0, 0)] >= 2 * fld + 3

\* C10: whatever the other points have done so far, no output slot has
\* been stored twice, and the shared words and output slots of a point none
\* of whose lanes has run are unwritten; for a degree in 2..10 a slot holds
\* the value of its own point and component from the moment that point's
\* reduction has run, and is as the caller left it until then.
PointsIndependent ==
    /\ \A n \in DOMAIN mem.nstore : mem.nstore[n] <= 1
    /\ (pc \in {"running", "done"})
          => \A i \in Upto(args.npt) :
                (\A l \in Lanes : lpc[i][l] = 0)
                    => /\ \A a \in DOMAIN mem.shm[i] : mem.shm[i][a] = Uninit
                       /\ \A fld \in Upto(args.ncomp) :
                             mem.int_out[i + fld * args.npt] = Stale
    /\ (pc \in {"running", "done"} /\ D1D \in 2..10)
          => \A i \in Upto(args.npt), fld \in Upto(args.ncomp) :
                mem.int_out[i + fld * args.npt] =
                    IF ReducedBy(i, fld) THEN ExpectedValue(i, fld) ELSE Stale

PointsIndependentWitness ==
    /\ pc = "running" /\ args.npt = 2 /\ D1D = 2 /\ Interleaved
    /\ ReducedBy(1, 0) /\ mem.nstore[1] = 1
    /\ lpc[0][0] = 1 /\ lpc[0][1] = 0 /\ lpc[0][3] = 1

\* Some lane of some point has run a phase body in the current launch.
AnyPointProcessed ==
    pc \in {"running", "done", "fault"}
        /\ \E i \in DOMAIN lpc : \E l \in DOMAIN lpc[i] : lpc[i][l] > 0

\* C11: a call with npt > 0 that reaches the dispatch launches the
\* specialised instantiation of the requested degree when the degree is 2,
\* 3, 4 or 5 and the generic instantiation with pN = degree otherwise, and
\* the loop bound D1D of a launch in which some lane has run is at most 10.
DispatchCapped ==
    (calls = 1 /\ args.npt > 0 /\ T_D1D # -1)
        => /\ T_D1D = (IF args.dof1Dsol \in 2..5 THEN args.dof1Dsol ELSE 0)
           /\ (T_D1D = 0 => pN = args.dof1Dsol)
           /\ (T_D1D # 0 => D1D = args.dof1Dsol)
           /\ (AnyPointProcessed => D1D <= 10)

\* The lanes that stored to a word in phase ph, among the stores seen.
StoresIn(seen, ph) == {s[1] : s \in {t \in seen.by : t[2] = ph}}

\* The accesses to array arr made by the lane body that ran last.
LogOf(arr) == {n \in DOMAIN mem.log : mem.log[n].arr = arr}

\* Some lane body has run in the current launch and was the last step.
LaneRan == pc \in {"running", "done"} /\ mem.cur.ph >= 0

\* C12: in the reduction of component fld every sums entry read was stored
\* in the contraction of fld by the lane owning it and by no other lane,
\* that lane has finished its contraction, and nobody has stored to the
\* entry for a later component; a contraction touches only the lane's own
\* entry, which no other lane stores to in that phase, and for fld >= 1 it
\* runs only once the reduction of fld - 1 has finished.
SumsRaceFree ==
    LaneRan =>
        LET c == mem.cur
        IN  \A n \in LogOf("sums") :
               LET a == mem.log[n]
               IN  /\ c.ph >= 1
                   /\ ~ \E s \in a.seen.by : s[2] > c.ph
                   /\ IF c.ph % 2 = 0
                      THEN /\ a.op = "r"
                           /\ c.lane = LaneId(0, 0)
                           /\ ~ \E s \in a.seen.by : s[2] = c.ph
                           /\ \E j, k \in Upto(D1D) :
                                 /\ SumsIndex(j, k) = a.idx
                                 /\ lpc[c.i][LaneId(j, k)] >= c.ph
                                 /\ StoresIn(a.seen, c.ph - 1) = {LaneId(j, k)}
                      ELSE /\ \E j, k \in Upto(D1D) :
                                 /\ c.lane = LaneId(j, k)
                                 /\ a.idx = SumsIndex(j, k)
                           /\ StoresIn(a.seen, c.ph) \subseteq {c.lane}
                           /\ (c.ph >= 3 => lpc[c.i][LaneId(0, 0)] >= c.ph - 1)

\* Lane 3 contracts component 1 while the other lanes have only finished
\* the reduction of component 0; lane 0 has reduced component 0.
SumsRaceFreeWitness ==
    /\ pc = "running" /\ Interleaved /\ D1D = 2 /\ args.ncomp = 2
    /\ mem.cur = [i |-> 0, lane |-> 3, ph |-> 3]
    /\ lpc[0] = [l \in Upto(4) |-> IF l = 3 THEN 4 ELSE 3]
    /\ LogOf("sums") # {}
    /\ mem.nstore[0] = 1

\* C13: a lane body that reads wtr runs after every lane of the point has
\* finished the basis phase, a lane body that writes wtr is a basis phase,
\* and no word of wtr read in a contraction has been stored to after the
\* first barrier, so every component sees the weights of the basis phase.
WtrStable ==
    LaneRan =>
        LET c == mem.cur
        IN  \A n \in LogOf("wtr") :
               LET a == mem.log[n]
               IN  IF a.op = "w" THEN c.ph = 0
                   ELSE /\ c.ph % 2 = 1
                        /\ BarrierPassed(c.i, 1)
                        /\ ~ \E s \in a.seen.by : s[2] > 0

\* The second index k of a lane.
LaneK(lane) == lane \div D1D

\* C14: for D1D in 2..10, once every lane of point i has finished the
\* basis phase, each entry wtr[d*D1D + j] has been stored exactly once, by
\* lane (j, k) with k = d (k = 1 for the third direction when D1D = 2), and
\* holds the weight of basis function j at r[3*i + d]; a basis phase of a
\* lane with k > 2 makes no access at all.
BasisWrittenOnce ==
    (pc \in {"running", "done"} /\ D1D \in 2..10)
        => /\ \A i \in Upto(args.npt) :
                 BarrierPassed(i, 1)
                     => \A d \in Upto(3), j \in Upto(D1D) :
                           /\ mem.wby[i][d * D1D + j] =
                                 [n |-> 1,
                                  by |-> {<<LaneId(j, DirLane(d)), 0>>}]
                           /\ mem.shm[i][d * D1D + j] =
                                 BasisValue(mem.r[3 * i + d], j)
           /\ (mem.cur.ph = 0 /\ LaneK(mem.cur.lane) > 2) => mem.log = <<>>

\* Degree 2: lane (1, 1) has stored the weights of basis function 1 in the
\* second and in the third direction.
BasisWrittenOnceWitness ==
    /\ pc = "running" /\ D1D = 2 /\ Interleaved /\ BarrierPassed(0, 1)
    /\ mem.wby[0][3] = [n |-> 1, by |-> {<<LaneId(1, 1), 0>>}]
    /\ mem.wby[0][5] = [n |-> 1, by |-> {<<LaneId(1, 1), 0>>}]
    /\ mem.shm[0][5] = BasisValue(mem.r[2], 1)
    /\ mem.shm[0][5] # Dbl(0)

\* One access, without the stores seen: operation, array, index.
Acc(op, arr, idx) == [op |-> op, arr |-> arr, idx |-> idx]

\* The accesses of the lane body that ran last, in order.
Trace == [n \in DOMAIN mem.log |-> Acc(mem.log[n].op, mem.log[n].arr,
                                       mem.log[n].idx)]

\* Lines 83-94 for lane (j, k): sums[j + k*D1D] = 0.0, then for l = 0,
\* 1, .. the read-modify-write with gf_in[..] and wtr[2*D1D + l], then the
\* scaling by wtr[D1D + k] * wtr[j].
GfIndex(i, j, k, fld, l) ==
    mem.el[i] * p_Np * Nfields + fld * p_Np + j + k * D1D + l * D1D * D1D

ContractTrace(i, j, k, fld) ==
    LET s == j + k * D1D
    IN  <<Acc("r", "el", i), Acc("w", "sums", s)>>
        \o [n \in 1..(4 * D1D) |->
               LET l == (n - 1) \div 4
               IN  CASE (n - 1) % 4 = 0 -> Acc("r", "sums", s)
                     [] (n - 1) % 4 = 1 ->
                            Acc("r", "gf_in", GfIndex(i, j, k, fld, l))
                     [] (n - 1) % 4 = 2 -> Acc("r", "wtr", 2 * D1D + l)
                     [] OTHER -> Acc("w", "sums", s)]
        \o <<Acc("r", "sums", s), Acc("r", "wtr", D1D + k),
             Acc("r", "wtr", j), Acc("w", "sums", s)>>

\* Lines 103-110 for lane (0, 0): sums[0], sums[1], .. are read in
\* increasing index, then the output slot is written.
ReduceTrace(i, fld) ==
    [n \in 1..(D1D * D1D) |-> Acc("r", "sums", n - 1)]
    \o <<Acc("w", "int_out", i + fld * args.npt)>>

\* Word n of sums of point i.
SumsWord(i, n) == mem.shm[i][SumsBase(T_D1D, pN, layout) + n]

\* C15: a reduction body of lane (0, 0) reads sums[0], sums[1], ..,
\* sums[D1D*D1D - 1] once each in that order and then writes the output
\* slot with their sum; a reduction body of any other lane does nothing;
\* no other body accesses the output.  A contraction body of lane (j, k)
\* adds the D1D terms gf_in[..] * wtr[2*D1D + l] to sums[j + k*D1D] for
\* l = 0, 1, .. in that order and scales the result by
\* wtr[D1D + k] * wtr[j] afterwards (the value for D1D in 2..10).
ReductionBySingleLane ==
    LaneRan =>
        LET c == mem.cur
            j == c.lane % D1D
            k == c.lane \div D1D
            fld == (c.ph - 1) \div 2
        IN  IF c.ph = 0 THEN LogOf("int_out") = {}
            ELSE IF c.ph % 2 = 0
            THEN IF c.lane = LaneId(0, 0)
                 THEN /\ Trace = ReduceTrace(c.i, fld)
                      /\ mem.int_out[c.i + fld * args.npt] =
                            SumOver([n \in Upto(D1D * D1D) |->
                                        SumsWord(c.i, n)], D1D * D1D)
                 ELSE mem.log = <<>>
            ELSE /\ Trace = ContractTrace(c.i, j, k, fld)
                 /\ (D1D \in 2..10)
                       => SumsWord(c.i, j + k * D1D) =
                             RMul(SumOver(
                                      [l \in Upto(D1D) |->
                                          RMul(mem.gf_in[
                                                   GfIndex(c.i, j, k, fld, l)],
                                               mem.shm[c.i][2 * D1D + l])],
                                      D1D),
                                  RMul(mem.shm[c.i][D1D + k],
                                       mem.shm[c.i][j]))

\* Degree 3, two points, three components: lane (0, 0) of point 1 has just
\* reduced component 1.
ReductionBySingleLaneWitness ==
    /\ pc = "running" /\ D1D = 3 /\ args.npt = 2 /\ args.ncomp = 3
    /\ mem.cur = [i |-> 1, lane |-> 0, ph |-> 4]
    /\ Len(mem.log) = 10
    /\ mem.log[10].op = "w" /\ mem.log[10].idx = 3
    /\ mem.nstore[3] = 1

\* A kernel has been launched by the current call and passed lines 54-55.
PassedChecks == T_D1D # -1 /\ pc \in {"running", "done", "fault"}

\* C16: an invocation that has passed the kernel's checks does not stop
\* before its end: it never faults, no lane passes more than 1 + 2*ncomp
\* barriers, and when it returns every lane of every point has passed
\* exactly 1 + 2*ncomp.
RunsToCompletion ==
    PassedChecks
        => /\ pc # "fault"
           /\ \A i \in Upto(args.npt) : \A l \in Lanes :
                 /\ lpc[i][l] <= 1 + 2 * args.ncomp
                 /\ (pc = "done" => lpc[i][l] = 1 + 2 * args.ncomp)

\* C17: for D1D in 2..10, MD1 is D1D in a specialised instantiation and
\* 10 in the generic one, and every access of a lane body to wtr is at an
\* index in [0, 3*MD1) and every access to sums at an index in
\* [0, MD1*MD1).
IndicesInCapacity ==
    (LaneRan /\ D1D \in 2..10)
        => /\ MD1 = (IF T_D1D # 0 THEN D1D ELSE 10)
           /\ \A n \in LogOf("wtr") : mem.log[n].idx \in 0..(3 * MD1 - 1)
           /\ \A n \in LogOf("sums") : mem.log[n].idx \in 0..(MD1 * MD1 - 1)

\* Degree 5 in the generic instantiation, called on the inputs of a run of
\* the specialised one: lane (4, 4) has contracted, reading wtr[14] and
\* storing sums[24].
IndicesInCapacityWitness ==
    /\ pc = "running" /\ calls = 2 /\ T_D1D = 0 /\ D1D = 5
    /\ prev.T_D1D = 5
    /\ mem.cur = [i |-> 0, lane |-> 24, ph |-> 1]
    /\ \E n \in LogOf("wtr") : mem.log[n].idx = 14
    /\ \E n \in LogOf("sums") : mem.log[n].op = "w" /\ mem.log[n].idx = 24

\* C18: a lane body of a point with element index e in [0, nel) reads the
\* nodal field only in a contraction, component fld of lane (j, k) at the
\* D1D indices e*D1D^3*ncomp + fld*D1D^3 + j + k*D1D + l*D1D^2, l in
\* 0..D1D-1, all in [0, nel*ncomp*D1D^3) and inside the buffer; it reads
\* the reference coordinates only at indices in [0, 3*npt); neither buffer
\* is written.  No index depends on gf_offset = field_in.Size()/ncomp.
FieldReadsInRange ==
    LaneRan =>
        LET c == mem.cur
            e == mem.el[c.i]
            j == c.lane % D1D
            k == c.lane \div D1D
            fld == (c.ph - 1) \div 2
            D3 == D1D * D1D * D1D
            At(l) == e * D3 * args.ncomp + fld * D3
                         + j + k * D1D + l * D1D * D1D
        IN  (e \in 0..(args.nel - 1))
               => /\ \A n \in LogOf("gf_in") :
                        /\ mem.log[n].op = "r"
                        /\ c.ph % 2 = 1
                        /\ \E l \in Upto(D1D) : mem.log[n].idx = At(l)
                        /\ mem.log[n].idx \in 0..(args.nel * args.ncomp * D3 - 1)
                        /\ mem.log[n].idx \in DOMAIN mem.gf_in
                  /\ (c.ph % 2 = 1)
                        => /\ Cardinality(LogOf("gf_in")) = D1D
                           /\ \A l \in Upto(D1D) : \E n \in LogOf("gf_in") :
                                 mem.log[n].idx = At(l)
                  /\ \A n \in LogOf("r") :
                        /\ mem.log[n].op = "r"
                        /\ mem.log[n].idx \in 0..(3 * args.npt - 1)

\* Degree 3, two elements, three components: lane (2, 2) of point 0, which
\* lies in element 1, has contracted component 2 and read the last word of
\* the field, gf_in[161].
FieldReadsInRangeWitness ==
    /\ pc = "running" /\ D1D = 3 /\ args.nel = 2 /\ args.ncomp = 3
    /\ mem.el[0] = 1
    /\ mem.cur = [i |-> 0, lane |-> 8, ph |-> 5]
    /\ \E n \in LogOf("gf_in") : mem.log[n].idx = 161
    /\ 161 = args.nel * args.ncomp * 27 - 1

\* C19: every word of wtr read by a contraction body has been stored to
\* in the basis phase of the same point.
WeightsWritten ==
    (LaneRan /\ mem.cur.ph % 2 = 1)
        => \A n \in LogOf("wtr") :
              mem.log[n].op = "r"
                  => /\ mem.log[n].seen.n >= 1
                     /\ \E s \in mem.log[n].seen.by : s[2] = 0

\* C20: a call with npt > 0, a degree in 2..10 and ncomp = 0 does not
\* fail and stores to no output slot and to no other caller word.
NoComponentsNoOutput ==
    (calls >= 1 /\ args.npt > 0 /\ args.ncomp = 0 /\ args.dof1Dsol \in 2..10)
        => /\ pc \in {"running", "done"}
           /\ Untouched
====
